---- MODULE Spec2Model ----
(***************************************************************************)
(* State-machine model of the SMS notification engine of app.py: the      *)
(* per-type cooldown check (_is_on_cooldown), the dispatcher               *)
(* (send_sms_alert, _log_sms), the threshold evaluation of a sensor        *)
(* reading (check_and_send_sensor_sms) and the two routes that drive them  *)
(* (receive_sensor_data, manual_send_sms).                                 *)
(*                                                                         *)
(* Time is counted in minutes since midnight of one day.  Each request is  *)
(* handled by a handler thread of the WSGI server; a thread's steps are    *)
(* the accesses to what the threads share: the sms_log collection, the     *)
(* clock and the Twilio gateway.                                           *)
(***************************************************************************)
EXTENDS Integers, Sequences, FiniteSets, TLC

\* ------------------------------------------------------------- bounds
\* The clock starts at StartTime and stops at MaxTime; it moves TickMinutes
\* at a time.  The gateway accepts at most MaxSid messages in one run.
StartTime == 60
MaxTime == 95
TickMinutes == 5
MaxSid == 2
\* At most MaxAlerts alerts are created and MaxReadings readings stored in
\* one run; the days run from StartDay to MaxDay.
MaxAlerts == 3
MaxReadings == 3
StartDay == 10
MaxDay == 17

\* ------------------------------------------------------ configuration
SMS_COOLDOWN_MINUTES ==
    [FLOOD |-> 30, FIRE |-> 20, AIR |-> 60, RAIN |-> 30, RISK_HIGH |-> 15,
     MANUAL |-> 0]

THRESHOLDS ==
    [distance    |-> [warn |-> 100, critical |-> 50],
     rain_level  |-> [warn |-> 70,  critical |-> 90],
     air_quality |-> [warn |-> 150, critical |-> 250],
     temperature |-> [warn |-> 40,  critical |-> 45]]

HazardTypes == DOMAIN SMS_COOLDOWN_MINUTES

\* Phone numbers: the empty string, the placeholder of the source, and two
\* real numbers.
PLACEHOLDER == "+91XXXXXXXXXX"
Numbers == {"", PLACEHOLDER, "+911", "+912"}

\* `not number or "XXXXXXXXXX" in number`
is_skipped(number) == number = "" \/ number = PLACEHOLDER

None == "None"
Threads == {"h1", "h2"}

VARIABLES
    now,               \* datetime.utcnow(), in minutes
    sms_log,           \* sms_log_collection, in insertion order
    next_sid,          \* the gateway: the sid of the next accepted message
    ALERT_RECIPIENTS,  \* the configured default recipients
    pc,                \* per thread: where its handler stands
    req,               \* per thread: the request it handles
    call,              \* per thread: the frame of its latest send_sms_alert
    ret,               \* per thread: what that send_sms_alert returned
    calls,             \* per thread: the send_sms_alert calls of the request
    resp,              \* per thread: the response of an alerts route
    alerts,            \* alerts_collection, in insertion order
    next_oid,          \* the _id MongoDB gives the next inserted alert
    collection,        \* the sensor_data collection, in insertion order
    today              \* the day of datetime.utcnow()

vars ==
    <<now, sms_log, next_sid, ALERT_RECIPIENTS, pc, req, call, ret, calls,
      resp, alerts, next_oid, collection, today>>

\* What the SMS engine never touches.
routeVars == <<resp, alerts, next_oid, collection, today>>

\* ----------------------------------------------------------- datetime
\* datetime.isoformat(): fixed-width, zero-padded fields, here "HHMM" as
\* its four digits (the date and the seconds are the same in all of them).
isoformat(t) ==
    <<(t \div 60) \div 10, (t \div 60) % 10, (t % 60) \div 10, (t % 60) % 10>>

\* A strict comparison in place of $gte.
RECURSIVE str_gt(_, _)
str_gt(a, b) ==
    IF a = <<>> THEN FALSE
    ELSE IF b = <<>> THEN TRUE
    ELSE IF Head(a) # Head(b) THEN Head(a) > Head(b)
    ELSE str_gt(Tail(a), Tail(b))

\* The order of strings MongoDB's $gte uses: lexicographic, a proper prefix
\* before its extensions.
RECURSIVE str_gte(_, _)
str_gte(a, b) ==
    IF b = <<>> THEN TRUE
    ELSE IF a = <<>> THEN FALSE
    ELSE IF Head(a) # Head(b) THEN Head(a) > Head(b)
    ELSE str_gte(Tail(a), Tail(b))

\* `SMS_COOLDOWN_MINUTES.get(alert_type) or 30`: a configured 0 is lost.
cooldown_mins_or_default(alert_type) ==
    IF alert_type \in DOMAIN SMS_COOLDOWN_MINUTES
       /\ SMS_COOLDOWN_MINUTES[alert_type] # 0
    THEN SMS_COOLDOWN_MINUTES[alert_type]
    ELSE 30

\* SMS_COOLDOWN_MINUTES.get(alert_type, 30)
cooldown_mins(alert_type) ==
    IF alert_type \in DOMAIN SMS_COOLDOWN_MINUTES
    THEN SMS_COOLDOWN_MINUTES[alert_type]
    ELSE 30

\* A cutoff that forgets to subtract the window.
cutoff_of_now(alert_type, t) == isoformat(t)

\* _is_on_cooldown against a given log and clock reading.
cutoff_of(alert_type, t) == isoformat(t - cooldown_mins(alert_type))

\* A query that leaves out the alert_type.
find_one_any_type(log, alert_type, cutoff) ==
    \E k \in 1..Len(log) : str_gte(log[k].sent_at, cutoff)

\* A query keyed by severity as well: a WARN record holds no window.
find_one_skips_warn(log, alert_type, cutoff) ==
    \E k \in 1..Len(log) :
        /\ log[k].alert_type = alert_type
        /\ log[k].message # "WARN"
        /\ str_gte(log[k].sent_at, cutoff)

find_one(log, alert_type, cutoff) ==
    \E k \in 1..Len(log) :
        /\ log[k].alert_type = alert_type
        /\ str_gte(log[k].sent_at, cutoff)

is_on_cooldown_in(log, alert_type, t) ==
    IF cooldown_mins(alert_type) = 0 THEN FALSE
    ELSE find_one(log, alert_type, cutoff_of(alert_type, t))

is_on_cooldown(alert_type) == is_on_cooldown_in(sms_log, alert_type, now)

\* ------------------------------------------------------ thread state
\* The frame of a send_sms_alert call.  last_sid = 0 is Python's None (the
\* gateway's sids start at 1).  attempted (the numbers handed to the
\* gateway) and log0 (the length of sms_log when the call began) record
\* what the call did; the code does not read them.
NoCall ==
    [alert_type |-> None, message |-> None, recipients |-> <<>>, i |-> 0,
     results |-> <<>>, last_sid |-> 0, attempted |-> <<>>, log0 |-> 0,
     cont |-> None]

NoRet ==
    [returned |-> FALSE, sent |-> FALSE, reason |-> None, count |-> 0,
     results |-> <<>>]

\* {"sent": True, "count": len(results), "results": results}
SentRet(results) ==
    [returned |-> TRUE, sent |-> TRUE, reason |-> None,
     count |-> Len(results), results |-> results]

\* {"sent": False, "reason": reason}
FailRet(reason) ==
    [returned |-> TRUE, sent |-> FALSE, reason |-> reason, count |-> 0,
     results |-> <<>>]

\* No response yet.  A response carries its status code, its error text,
\* the alert documents of its body and the sms_result embedded in it.
NoResp ==
    [code |-> 0, error |-> None, docs |-> <<>>, has_sms |-> FALSE,
     sms_result |-> NoRet]

\* recipients: list = None
NoRecipients == [is_none |-> TRUE, list |-> <<>>]
Given(list) == [is_none |-> FALSE, list |-> list]

NoReq ==
    [kind |-> None, data |-> <<>>, risk |-> None, message |-> None,
     recipients |-> NoRecipients]

\* dict.get(key, default)
get(d, key, default) == IF key \in DOMAIN d THEN d[key] ELSE default

Init ==
    /\ now = StartTime
    /\ sms_log = <<>>
    /\ next_sid = 1
    /\ ALERT_RECIPIENTS \in {<<PLACEHOLDER>>, <<"+911">>}
    /\ pc = [p \in Threads |-> "idle"]
    /\ req = [p \in Threads |-> NoReq]
    /\ call = [p \in Threads |-> NoCall]
    /\ ret = [p \in Threads |-> NoRet]
    /\ calls = [p \in Threads |-> <<>>]
    /\ resp = [p \in Threads |-> NoResp]
    /\ alerts = <<>>
    /\ next_oid = 1
    /\ collection = <<>>
    /\ today = StartDay

\* _log_sms, lines 123-131.
log_sms(log, alert_type, message, recipients, sid, t) ==
    Append(log, [alert_type |-> alert_type, message |-> message,
                 recipients |-> recipients, twilio_sid |-> sid,
                 sent_at |-> isoformat(t)])

\* ---------------------------------------------------- send_sms_alert
\* A suppressed attempt is logged too, which restarts the window.
send_sms_alert_logs_suppressed(p, alert_type, message, recipients, cont) ==
    LET rcpts == IF recipients.is_none THEN ALERT_RECIPIENTS
                 ELSE recipients.list
        frame == [alert_type |-> alert_type, message |-> message,
                  recipients |-> rcpts, i |-> 1, results |-> <<>>,
                  last_sid |-> 0, attempted |-> <<>>,
                  log0 |-> Len(sms_log), cont |-> cont]
    IN  /\ calls' = [calls EXCEPT ![p] =
                        Append(@, [alert_type |-> alert_type,
                                   message |-> message])]
        /\ call' = [call EXCEPT ![p] = frame]
        /\ IF is_on_cooldown(alert_type)
           THEN /\ ret' = [ret EXCEPT ![p] = FailRet("cooldown")]
                /\ pc' = [pc EXCEPT ![p] = cont]
                /\ sms_log' = log_sms(sms_log, alert_type, message, rcpts, 0,
                                      now)
           ELSE /\ ret' = [ret EXCEPT ![p] = NoRet]
                /\ pc' = [pc EXCEPT ![p] = "loop"]
                /\ sms_log' = sms_log
        /\ UNCHANGED <<now, next_sid, ALERT_RECIPIENTS>>

\* Lines 139-147: the default recipients, the cooldown check and its early
\* return, else the entry into the loop.  cont is where the caller goes on.
send_sms_alert(p, alert_type, message, recipients, cont) ==
    LET rcpts == IF recipients.is_none THEN ALERT_RECIPIENTS
                 ELSE recipients.list
        frame == [alert_type |-> alert_type, message |-> message,
                  recipients |-> rcpts, i |-> 1, results |-> <<>>,
                  last_sid |-> 0, attempted |-> <<>>,
                  log0 |-> Len(sms_log), cont |-> cont]
    IN  /\ calls' = [calls EXCEPT ![p] =
                        Append(@, [alert_type |-> alert_type,
                                   message |-> message])]
        /\ call' = [call EXCEPT ![p] = frame]
        /\ IF is_on_cooldown(alert_type)
           THEN /\ ret' = [ret EXCEPT ![p] = FailRet("cooldown")]
                /\ pc' = [pc EXCEPT ![p] = cont]
           ELSE /\ ret' = [ret EXCEPT ![p] = NoRet]
                /\ pc' = [pc EXCEPT ![p] = "loop"]
        /\ UNCHANGED <<now, sms_log, next_sid, ALERT_RECIPIENTS>>

\* Lines 150-153: an empty or placeholder number is skipped.
skip_number(p) ==
    /\ pc[p] = "loop"
    /\ call[p].i <= Len(call[p].recipients)
    /\ is_skipped(call[p].recipients[call[p].i])
    /\ call' = [call EXCEPT ![p].i = @ + 1]
    /\ UNCHANGED <<now, sms_log, next_sid, ALERT_RECIPIENTS, pc, req, ret,
                   calls>>
    /\ UNCHANGED routeVars

\* Lines 154-161: the gateway accepts the message and names it.
create_accepted(p) ==
    /\ pc[p] = "loop"
    /\ call[p].i <= Len(call[p].recipients)
    /\ ~is_skipped(call[p].recipients[call[p].i])
    /\ next_sid <= MaxSid
    /\ LET number == call[p].recipients[call[p].i] IN
       call' = [call EXCEPT
                   ![p].i = @ + 1,
                   ![p].last_sid = next_sid,
                   ![p].attempted = Append(@, number),
                   ![p].results =
                       Append(@, [to |-> number, sid |-> next_sid,
                                  status |-> "queued"])]
    /\ next_sid' = next_sid + 1
    /\ UNCHANGED <<now, sms_log, ALERT_RECIPIENTS, pc, req, ret, calls>>
    /\ UNCHANGED routeVars

\* No except clause: the gateway's exception leaves send_sms_alert and
\* check_and_send_sensor_sms, and the route answers 500.
create_raised_propagates(p) ==
    /\ pc[p] = "loop"
    /\ call[p].i <= Len(call[p].recipients)
    /\ ~is_skipped(call[p].recipients[call[p].i])
    /\ call' = [call EXCEPT
                   ![p].attempted = Append(@, call[p].recipients[call[p].i])]
    /\ ret' = [ret EXCEPT ![p] = FailRet("twilio error")]
    /\ pc' = [pc EXCEPT ![p] = "done"]
    /\ UNCHANGED <<now, sms_log, next_sid, ALERT_RECIPIENTS, req, calls>>
    /\ UNCHANGED routeVars

\* Lines 154 and 169-171: the gateway raises; the except clause that wraps
\* the whole loop returns the error.
create_raised(p) ==
    /\ pc[p] = "loop"
    /\ call[p].i <= Len(call[p].recipients)
    /\ ~is_skipped(call[p].recipients[call[p].i])
    /\ call' = [call EXCEPT
                   ![p].attempted = Append(@, call[p].recipients[call[p].i])]
    /\ ret' = [ret EXCEPT ![p] = FailRet("twilio error")]
    /\ pc' = [pc EXCEPT ![p] = call[p].cont]
    /\ UNCHANGED <<now, sms_log, next_sid, ALERT_RECIPIENTS, req, calls>>
    /\ UNCHANGED routeVars

\* A record is written whether or not a message was accepted.
logs_always(frame) == TRUE

\* Lines 163-167, after the loop: `if last_sid:` logs and returns sent,
\* else "no valid recipients".
logs_after_loop(frame) == frame.last_sid # 0

after_loop(p) ==
    /\ pc[p] = "loop"
    /\ call[p].i > Len(call[p].recipients)
    /\ IF logs_after_loop(call[p])
       THEN /\ sms_log' = log_sms(sms_log, call[p].alert_type,
                                  call[p].message, call[p].recipients,
                                  call[p].last_sid, now)
            /\ ret' = [ret EXCEPT ![p] = SentRet(call[p].results)]
       ELSE /\ sms_log' = sms_log
            /\ ret' = [ret EXCEPT ![p] = FailRet("no valid recipients")]
    /\ pc' = [pc EXCEPT ![p] = call[p].cont]
    /\ UNCHANGED <<now, next_sid, ALERT_RECIPIENTS, req, call, calls>>
    /\ UNCHANGED routeVars

\* ------------------------------------------ check_and_send_sensor_sms
\* The tier of each signal's if/elif: the critical cutoff is tried first.
\* The warning cutoff tried first.
flood_tier_warn_first(distance) ==
    IF distance <= THRESHOLDS.distance.warn THEN "WARN"
    ELSE IF distance <= THRESHOLDS.distance.critical THEN "CRITICAL"
    ELSE None

flood_tier(distance) ==
    IF distance <= THRESHOLDS.distance.critical THEN "CRITICAL"
    ELSE IF distance <= THRESHOLDS.distance.warn THEN "WARN"
    ELSE None

rain_tier(rain) ==
    IF rain >= THRESHOLDS.rain_level.critical THEN "CRITICAL"
    ELSE IF rain >= THRESHOLDS.rain_level.warn THEN "WARN"
    ELSE None

air_tier(air) ==
    IF air >= THRESHOLDS.air_quality.critical THEN "CRITICAL"
    ELSE IF air >= THRESHOLDS.air_quality.warn THEN "WARN"
    ELSE None

fire_tier(temperature) ==
    IF temperature >= THRESHOLDS.temperature.critical THEN "CRITICAL"
    ELSE IF temperature >= THRESHOLDS.temperature.warn THEN "WARN"
    ELSE None

\* `if risk == "HIGH":`
risk_tier(risk) == IF risk = "HIGH" THEN "HIGH RISK" ELSE None

\* One block of check_and_send_sensor_sms: its send_sms_alert call, if the
\* block has a tier, and on to the next block.  The message is the tier.
block(p, stage, alert_type, tier, next) ==
    /\ pc[p] = stage
    /\ req' = req
    /\ UNCHANGED routeVars
    /\ IF tier # None
       THEN send_sms_alert(p, alert_type, tier, NoRecipients, next)
       ELSE /\ pc' = [pc EXCEPT ![p] = next]
            /\ UNCHANGED <<now, sms_log, next_sid, ALERT_RECIPIENTS, call,
                           ret, calls>>

\* Lines 189-205.
flood_block(p) ==
    block(p, "flood", "FLOOD",
          flood_tier(get(req[p].data, "distance", 999)), "rain")

\* Lines 207-223.
rain_block(p) ==
    block(p, "rain", "RAIN",
          rain_tier(get(req[p].data, "rain_level", 0)), "air")

\* Lines 225-241.
air_block(p) ==
    block(p, "air", "AIR",
          air_tier(get(req[p].data, "air_quality", 0)), "fire")

\* Lines 243-259.
fire_block(p) ==
    block(p, "fire", "FIRE",
          fire_tier(get(req[p].data, "temperature", 0)), "risk")

\* Lines 261-269.
risk_block(p) ==
    block(p, "risk", "RISK_HIGH", risk_tier(req[p].risk), "done")

\* ------------------------------------------------------------ routes
\* POST /sensor-data, lines 281-297, up to the call of
\* check_and_send_sensor_sms.  risk is what evaluate_risk answers.  The
\* insert of the reading (line 292), which the SMS engine never reads, is
\* followed in receive_sensor_data_stored.
receive_sensor_data(p, data, risk) ==
    /\ pc[p] = "idle"
    /\ req' = [req EXCEPT ![p] =
                  [kind |-> "sensor", data |-> data, risk |-> risk,
                   message |-> None, recipients |-> NoRecipients]]
    /\ pc' = [pc EXCEPT ![p] = IF DOMAIN data = {} THEN "done" ELSE "flood"]
    /\ UNCHANGED <<now, sms_log, next_sid, ALERT_RECIPIENTS, call, ret,
                   calls>>
    /\ UNCHANGED routeVars

\* `data.get("recipients", ALERT_RECIPIENTS)`: an empty list is passed on.
manual_send_sms_keeps_empty(p, message, recipients) ==
    /\ pc[p] = "idle"
    /\ req' = [req EXCEPT ![p] =
                  [kind |-> "manual", data |-> <<>>, risk |-> None,
                   message |-> message, recipients |-> recipients]]
    /\ UNCHANGED routeVars
    /\ IF message = ""
       THEN /\ pc' = [pc EXCEPT ![p] = "done"]
            /\ UNCHANGED <<now, sms_log, next_sid, ALERT_RECIPIENTS, call,
                           ret, calls>>
       ELSE send_sms_alert(p, "MANUAL", message,
                           IF recipients.is_none
                           THEN Given(ALERT_RECIPIENTS)
                           ELSE recipients,
                           "done")

\* POST /send-sms, lines 317-331: a blank message is refused, and
\* `data.get("recipients") or ALERT_RECIPIENTS`.
manual_send_sms(p, message, recipients) ==
    /\ pc[p] = "idle"
    /\ req' = [req EXCEPT ![p] =
                  [kind |-> "manual", data |-> <<>>, risk |-> None,
                   message |-> message, recipients |-> recipients]]
    /\ UNCHANGED routeVars
    /\ IF message = ""
       THEN /\ pc' = [pc EXCEPT ![p] = "done"]
            /\ UNCHANGED <<now, sms_log, next_sid, ALERT_RECIPIENTS, call,
                           ret, calls>>
       ELSE send_sms_alert(p, "MANUAL", message,
                           IF recipients.is_none \/ recipients.list = <<>>
                           THEN Given(ALERT_RECIPIENTS)
                           ELSE recipients,
                           "done")

\* The handler has answered; the thread takes the next request.
respond(p) ==
    /\ pc[p] = "done"
    /\ pc' = [pc EXCEPT ![p] = "idle"]
    /\ req' = [req EXCEPT ![p] = NoReq]
    /\ call' = [call EXCEPT ![p] = NoCall]
    /\ ret' = [ret EXCEPT ![p] = NoRet]
    /\ calls' = [calls EXCEPT ![p] = <<>>]
    /\ resp' = [resp EXCEPT ![p] = NoResp]
    /\ UNCHANGED <<now, sms_log, next_sid, ALERT_RECIPIENTS, alerts, next_oid,
                   collection, today>>

\* Time passes.
Tick ==
    /\ now + TickMinutes <= MaxTime
    /\ now' = now + TickMinutes
    /\ UNCHANGED <<sms_log, next_sid, ALERT_RECIPIENTS, pc, req, call, ret,
                   calls>>
    /\ UNCHANGED routeVars

\* -------------------------------------------------------------- inputs
RiskLabels == {"LOW", "MEDIUM", "HIGH", "UNKNOWN"}

\* Readings of the timed runs: flood critical, flood warning, a rain
\* advisory next to a fire warning, and a nominal reading.
TimedReadings ==
    {<<[distance |-> 40], "LOW">>, <<[distance |-> 80], "MEDIUM">>,
     <<[rain_level |-> 75, temperature |-> 41], "UNKNOWN">>,
     <<[distance |-> 150, air_quality |-> 20], "HIGH">>}

ManualMessages == {"", "evacuate"}

ManualRecipients ==
    {NoRecipients, Given(<<>>), Given(<<"", "+911", "+912">>)}

\* One handler thread: requests are handled one after the other.
step(p) ==
    \/ \E r \in TimedReadings : receive_sensor_data(p, r[1], r[2])
    \/ \E m \in ManualMessages, rc \in ManualRecipients :
           manual_send_sms(p, m, rc)
    \/ flood_block(p)
    \/ rain_block(p)
    \/ air_block(p)
    \/ fire_block(p)
    \/ risk_block(p)
    \/ skip_number(p)
    \/ create_accepted(p)
    \/ create_raised(p)
    \/ after_loop(p)
    \/ respond(p)

Next == step("h1") \/ Tick

Spec == Init /\ [][Next]_vars

\* Two handler threads: requests overlap.  Both threads take sensor
\* readings.
ConcReadings == {<<[distance |-> 40], "LOW">>, <<[distance |-> 150], "HIGH">>}

stepConc(p) ==
    \/ \E r \in ConcReadings : receive_sensor_data(p, r[1], r[2])
    \/ flood_block(p)
    \/ rain_block(p)
    \/ air_block(p)
    \/ fire_block(p)
    \/ risk_block(p)
    \/ skip_number(p)
    \/ create_accepted(p)
    \/ create_raised(p)
    \/ after_loop(p)
    \/ respond(p)

NextConc == (\E p \in Threads : stepConc(p)) \/ Tick

SpecConc == Init /\ [][NextConc]_vars

\* Readings at and around every cutoff, with every risk label, handled one
\* after the other at one instant.
EvalData ==
    {[distance |-> d, rain_level |-> r, air_quality |-> a, temperature |-> t] :
        d \in {50, 100, 101}, r \in {90, 70, 69}, a \in {250, 150, 149},
        t \in {45, 40, 39}}
    \cup {[distance |-> 40], [rain_level |-> 75], [humidity |-> 55]}

EvalRisks == {"LOW", "HIGH"}

stepEval(p) ==
    \/ \E d \in EvalData, r \in EvalRisks : receive_sensor_data(p, d, r)
    \/ flood_block(p)
    \/ rain_block(p)
    \/ air_block(p)
    \/ fire_block(p)
    \/ risk_block(p)
    \/ skip_number(p)
    \/ create_accepted(p)
    \/ create_raised(p)
    \/ after_loop(p)
    \/ respond(p)

NextEval == stepEval("h1")

SpecEval == Init /\ [][NextEval]_vars

\* ------------------------------------------------------ alerts routes
\* `.limit(100)`
Limit == 100

\* datetime.utcnow().year
year == 2026

Digit == <<"0", "1", "2", "3", "4", "5", "6", "7", "8", "9">>

\* str(n) of a natural number.
RECURSIVE str(_)
str(n) ==
    IF n < 10 THEN Digit[n + 1]
    ELSE str(n \div 10) \o Digit[(n % 10) + 1]

\* str.zfill(width): zeros on the left up to the width, never a cut.
RECURSIVE zfill(_, _)
zfill(s, width) == IF Len(s) >= width THEN s ELSE zfill("0" \o s, width)

\* str.upper() of the severities a request here carries.
upper(s) ==
    CASE s = "Critical" -> "CRITICAL"
      [] s = "High" -> "HIGH"
      [] s = "Moderate" -> "MODERATE"
      [] s = "Low" -> "LOW"
      [] s = "Extreme" -> "EXTREME"

\* s[:n]
slice(s, n) == IF Len(s) <= n THEN s ELSE SubSeq(s, 1, n)

\* str(ObjectId): fixed-width digits.
str_oid(oid) == zfill(str(oid), 24)

\* Line 436: f"AL-{year}-{str(count + 1).zfill(3)}"
alert_id_of(count) == "AL-" \o str(year) \o "-" \o zfill(str(count + 1), 3)

\* Lines 403-404.
severity_order(s) ==
    CASE s = "Critical" -> 0
      [] s = "High" -> 1
      [] s = "Moderate" -> 2
      [] s = "Low" -> 3
      [] OTHER -> 4

\* Python's order of tuples of integers.
RECURSIVE key_lt(_, _)
key_lt(a, b) ==
    IF a = <<>> \/ b = <<>> THEN a = <<>> /\ b # <<>>
    ELSE IF Head(a) # Head(b) THEN Head(a) < Head(b)
    ELSE key_lt(Tail(a), Tail(b))

\* An element put before its equals: the sort is no longer stable.
RECURSIVE insert_before_equals(_, _)
insert_before_equals(e, s) ==
    IF s = <<>> THEN <<e>>
    ELSE IF ~key_lt(Head(s).key, e.key) THEN <<e>> \o s
    ELSE <<Head(s)>> \o insert_before_equals(e, Tail(s))

\* list.sort is stable: an element goes behind those that are not greater.
RECURSIVE insert(_, _)
insert(e, s) ==
    IF s = <<>> THEN <<e>>
    ELSE IF key_lt(e.key, Head(s).key) THEN <<e>> \o s
    ELSE <<Head(s)>> \o insert(e, Tail(s))

RECURSIVE sorted(_)
sorted(s) ==
    IF s = <<>> THEN <<>>
    ELSE insert(s[Len(s)], sorted(SubSeq(s, 1, Len(s) - 1)))

\* docs.sort(key=...), and the cursor's sort: keys holds the key of each
\* document.
list_sort(docs, keys) ==
    LET s == sorted([k \in 1..Len(docs) |->
                        [key |-> keys[k], doc |-> docs[k]]])
    IN  [k \in 1..Len(docs) |-> s[k].doc]

\* .sort("_id", -1)
oid_descending(d) == <<0 - d._id>>

\* Lines 413-416, the key of docs.sort.
alert_key(d) ==
    <<IF get(d, "status", None) = "Active" THEN 0 ELSE 1,
      severity_order(get(d, "severity", ""))>>

\* .limit(n)
limit(docs, n) == IF Len(docs) <= n THEN docs ELSE SubSeq(docs, 1, n)

\* Lines 410-416: what GET /alerts returns for a collection.
listing(coll) ==
    LET found == list_sort(coll, [k \in 1..Len(coll) |->
                                    oid_descending(coll[k])])
        docs == [k \in 1..Len(limit(found, Limit)) |->
                    [found[k] EXCEPT !._id = str_oid(@)]]
    IN  list_sort(docs, [k \in 1..Len(docs) |-> alert_key(docs[k])])

\* The state an alerts route leaves alone when it calls nothing.
smsVars == <<now, sms_log, next_sid, ALERT_RECIPIENTS, call, ret, calls>>

Request(kind, data) ==
    [kind |-> kind, data |-> data, risk |-> None, message |-> None,
     recipients |-> NoRecipients]

Response(code, error) == [NoResp EXCEPT !.code = code, !.error = error]

\* GET /alerts.
get_alerts(p) ==
    /\ pc[p] = "idle"
    /\ req' = [req EXCEPT ![p] = Request("list", <<>>)]
    /\ resp' = [resp EXCEPT ![p] =
                   [Response(200, None) EXCEPT !.docs = listing(alerts)]]
    /\ pc' = [pc EXCEPT ![p] = "done"]
    /\ UNCHANGED <<alerts, next_oid, collection, today>>
    /\ UNCHANGED smsVars

RequiredFields == <<"type", "severity", "location", "message">>

\* Lines 430-432: the fields `not data.get(field)` holds for, in order.
missing_fields(data) ==
    SelectSeq(RequiredFields, LAMBDA field : get(data, field, "") = "")

\* Lines 438-447, with the _id insert_one gives the document.
new_alert(data, count, oid, t) ==
    [_id |-> oid,
     id |-> alert_id_of(count),
     type |-> data.type,
     severity |-> data.severity,
     location |-> data.location,
     message |-> data.message,
     channels |-> get(data, "channels", <<>>),
     status |-> "Active",
     timestamp |-> isoformat(t)]

\* Lines 453-459.
sms_body(alert) ==
    "MHEWS ALERT [" \o upper(alert.severity) \o "]\nType: " \o alert.type
        \o "\nLocation: " \o alert.location \o "\n"
        \o slice(alert.message, 100) \o "\nRef: " \o alert.id

\* `"SMS" in alert.get("channels", [])`
has_sms_channel(alert) ==
    \E k \in 1..Len(alert.channels) : alert.channels[k] = "SMS"

\* A creation answered as an error when the message was not sent.
created_response_needs_sent(alert, sms_result) ==
    IF sms_result.sent
    THEN [Response(201, None) EXCEPT
             !.docs = <<alert>>, !.has_sms = TRUE, !.sms_result = sms_result]
    ELSE [Response(500, "Could not create alert") EXCEPT !.docs = <<alert>>]

\* Lines 460-462: jsonify(alert), 201 with alert["sms_result"] set.
created_response(alert, sms_result) ==
    [Response(201, None) EXCEPT
        !.docs = <<alert>>, !.has_sms = TRUE, !.sms_result = sms_result]

\* POST /alerts, lines 425-462 up to the call of send_sms_alert (or to the
\* end, without the SMS channel).  The response under construction holds
\* the local `alert`.
create_alert(p, data) ==
    /\ pc[p] = "idle"
    /\ req' = [req EXCEPT ![p] = Request("create", data)]
    /\ UNCHANGED <<collection, today>>
    /\ IF DOMAIN data = {}
       THEN /\ resp' = [resp EXCEPT ![p] = Response(400, "No JSON received")]
            /\ pc' = [pc EXCEPT ![p] = "done"]
            /\ UNCHANGED <<alerts, next_oid>>
            /\ UNCHANGED smsVars
       ELSE IF missing_fields(data) # <<>>
       THEN /\ resp' = [resp EXCEPT ![p] =
                           Response(400, "Missing field: "
                                             \o missing_fields(data)[1])]
            /\ pc' = [pc EXCEPT ![p] = "done"]
            /\ UNCHANGED <<alerts, next_oid>>
            /\ UNCHANGED smsVars
       ELSE LET alert == new_alert(data, Len(alerts), next_oid, now)
                out == [alert EXCEPT !._id = str_oid(@)]
            IN  /\ next_oid <= MaxAlerts
                /\ alerts' = Append(alerts, alert)
                /\ next_oid' = next_oid + 1
                /\ IF has_sms_channel(alert)
                   THEN /\ resp' = [resp EXCEPT ![p] =
                                       [NoResp EXCEPT !.docs = <<out>>]]
                        /\ send_sms_alert(p, "MANUAL", sms_body(alert),
                                          NoRecipients, "created")
                   ELSE /\ resp' = [resp EXCEPT ![p] =
                                       [Response(201, None) EXCEPT
                                           !.docs = <<out>>]]
                        /\ pc' = [pc EXCEPT ![p] = "done"]
                        /\ UNCHANGED smsVars

\* Lines 460-462, after send_sms_alert has returned.
created(p) ==
    /\ pc[p] = "created"
    /\ resp' = [resp EXCEPT ![p] = created_response(resp[p].docs[1], ret[p])]
    /\ pc' = [pc EXCEPT ![p] = "done"]
    /\ UNCHANGED <<req, alerts, next_oid, collection, today>>
    /\ UNCHANGED smsVars

\* The place of the first document with the id, 0 if there is none.
find_by_id(coll, alert_id) ==
    IF \E k \in 1..Len(coll) : coll[k].id = alert_id
    THEN CHOOSE k \in 1..Len(coll) :
             /\ coll[k].id = alert_id
             /\ \A j \in 1..(k - 1) : coll[j].id # alert_id
    ELSE 0

\* A $set that flips the status.
set_toggled(doc, t) ==
    [status |-> IF doc.status = "Active" THEN "Resolved" ELSE "Active",
     resolved_at |-> isoformat(t)] @@ doc

\* {"$set": {"status": "Resolved", "resolved_at": ...}}
set_resolved(doc, t) ==
    [status |-> "Resolved", resolved_at |-> isoformat(t)] @@ doc

\* update_one with upsert: a document is made when none matches.
update_one_upsert(coll, alert_id, t) ==
    LET k == find_by_id(coll, alert_id)
    IN  IF k = 0
        THEN Append(coll, [id |-> alert_id, status |-> "Resolved",
                           resolved_at |-> isoformat(t)])
        ELSE [coll EXCEPT ![k] = set_resolved(@, t)]

\* update_one({"id": alert_id}, {"$set": ...}): the first match, if any.
update_one(coll, alert_id, t) ==
    LET k == find_by_id(coll, alert_id)
    IN  IF k = 0 THEN coll ELSE [coll EXCEPT ![k] = set_resolved(@, t)]

\* delete_one({"id": alert_id}): the first match, if any.
delete_one(coll, alert_id) ==
    LET k == find_by_id(coll, alert_id)
    IN  IF k = 0 THEN coll
        ELSE SubSeq(coll, 1, k - 1) \o SubSeq(coll, k + 1, Len(coll))

\* PATCH /alerts/<alert_id>/resolve.
resolve_alert(p, alert_id) ==
    /\ pc[p] = "idle"
    /\ req' = [req EXCEPT ![p] = Request("resolve", [alert_id |-> alert_id])]
    /\ alerts' = update_one(alerts, alert_id, now)
    /\ resp' = [resp EXCEPT ![p] =
                   IF find_by_id(alerts, alert_id) = 0
                   THEN Response(404, "Alert not found")
                   ELSE Response(200, None)]
    /\ pc' = [pc EXCEPT ![p] = "done"]
    /\ UNCHANGED <<next_oid, collection, today>>
    /\ UNCHANGED smsVars

\* DELETE /alerts/<alert_id>.
delete_alert(p, alert_id) ==
    /\ pc[p] = "idle"
    /\ req' = [req EXCEPT ![p] = Request("delete", [alert_id |-> alert_id])]
    /\ alerts' = delete_one(alerts, alert_id)
    /\ resp' = [resp EXCEPT ![p] =
                   IF find_by_id(alerts, alert_id) = 0
                   THEN Response(404, "Alert not found")
                   ELSE Response(200, None)]
    /\ pc' = [pc EXCEPT ![p] = "done"]
    /\ UNCHANGED <<next_oid, collection, today>>
    /\ UNCHANGED smsVars

\* The bodies of POST /alerts.
AlertInputs ==
    {<<>>,
     [type |-> "Flood", severity |-> "", location |-> "Zone A",
      message |-> "River rising"],
     [type |-> "Flood", severity |-> "Critical", location |-> "Zone A",
      message |-> "River rising", channels |-> <<"App", "SMS">>],
     [type |-> "Fire", severity |-> "Low", location |-> "Zone B",
      message |-> "Smoke seen", channels |-> <<>>],
     [type |-> "Storm", severity |-> "Extreme", location |-> "Zone B",
      message |-> "Gale"]}

\* The ids a resolve or a delete names.
AlertIds == {alert_id_of(n) : n \in 0..MaxAlerts}

stepAlerts(p) ==
    \/ \E data \in AlertInputs : create_alert(p, data)
    \/ created(p)
    \/ get_alerts(p)
    \/ \E alert_id \in AlertIds : resolve_alert(p, alert_id)
    \/ \E alert_id \in AlertIds : delete_alert(p, alert_id)
    \/ skip_number(p)
    \/ create_accepted(p)
    \/ create_raised(p)
    \/ after_loop(p)
    \/ respond(p)

NextAlerts == stepAlerts("h1")

SpecAlerts == Init /\ [][NextAlerts]_vars

\* --------------------------------------------------------- weekly risk
\* Lines 354-355.
RISK_SCORE_MAP == [LOW |-> 1, MEDIUM |-> 2, HIGH |-> 3, UNKNOWN |-> 0]
RISK_LABEL_MAP == (1 :> "LOW") @@ (2 :> "MEDIUM") @@ (3 :> "HIGH")
                      @@ (0 :> "UNKNOWN")

\* datetime.isoformat() with its date: the day of the month in two digits
\* before the time (the year and the month are the same in all of them).
isoformat_on(day, t) == <<day \div 10, day % 10>> \o isoformat(t)

\* datetime.fromisoformat(ts).strftime("%Y-%m-%d"), and day.strftime of a
\* bucket's day: the date read from the string and written in two digits.
day_of(ts) == ts[1] * 10 + ts[2]
strftime_date(day) == <<day \div 10, day % 10>>

\* strftime("%a")
DayNames == <<"Mon", "Tue", "Wed", "Thu", "Fri", "Sat", "Sun">>
strftime_a(day) == DayNames[(day % 7) + 1]

\* round() to half up.
round_half_up(n, d) == (2 * n + d) \div (2 * d)

\* Python's round(n / d): to the nearest integer, a half to the even one.
py_round(n, d) ==
    LET q == n \div d
        r == n % d
    IN  IF 2 * r < d THEN q
        ELSE IF 2 * r > d THEN q + 1
        ELSE IF q % 2 = 0 THEN q
        ELSE q + 1

\* The label of the rounded average, without the override for no readings
\* (the average of an empty day is 0).
risk_label_rounded(total_score, count) ==
    LET r == IF count > 0 THEN py_round(total_score, count) ELSE 0
    IN  IF r \in DOMAIN RISK_LABEL_MAP THEN RISK_LABEL_MAP[r] ELSE "NONE"

\* Line 390: RISK_LABEL_MAP.get(round(avg), "NONE") if count > 0 else "NONE"
risk_label_of(total_score, count) ==
    IF count > 0
    THEN LET r == py_round(total_score, count)
         IN  IF r \in DOMAIN RISK_LABEL_MAP THEN RISK_LABEL_MAP[r]
             ELSE "NONE"
    ELSE "NONE"

\* Line 374: RISK_SCORE_MAP.get(doc.get("risk", "UNKNOWN"), 0)
score_of(doc) ==
    LET risk == get(doc, "risk", "UNKNOWN")
    IN  IF risk \in DOMAIN RISK_SCORE_MAP THEN RISK_SCORE_MAP[risk] ELSE 0

\* Lines 371-377: the bucket of one day after the loop over the documents
\* found.
RECURSIVE bucket_of(_, _)
bucket_of(docs, day_key) ==
    IF docs = <<>> THEN [total_score |-> 0, count |-> 0]
    ELSE LET b == bucket_of(SubSeq(docs, 1, Len(docs) - 1), day_key)
             doc == docs[Len(docs)]
         IN  IF strftime_date(day_of(doc.timestamp)) = day_key
             THEN [total_score |-> b.total_score + score_of(doc),
                   count |-> b.count + 1]
             ELSE b

\* Lines 360-392: the seven entries of GET /weekly-risk.  `risk`, the
\* average rounded to two decimals, is held in hundredths.
weekly(coll, day) ==
    LET week_start == day - 6
        found == SelectSeq(coll,
                     LAMBDA doc : str_gte(doc.timestamp,
                                          isoformat_on(week_start, 0)))
    IN  [i \in 1..7 |->
            LET d == week_start + (i - 1)
                bucket == bucket_of(found, strftime_date(d))
            IN  [name |-> strftime_a(d),
                 risk |-> IF bucket.count > 0
                          THEN py_round(100 * bucket.total_score,
                                        bucket.count)
                          ELSE 0,
                 risk_label |-> risk_label_of(bucket.total_score,
                                              bucket.count),
                 count |-> bucket.count]]

\* GET /weekly-risk.
weekly_risk(p) ==
    /\ pc[p] = "idle"
    /\ req' = [req EXCEPT ![p] = Request("weekly", <<>>)]
    /\ resp' = [resp EXCEPT ![p] =
                   [Response(200, None) EXCEPT
                       !.docs = weekly(collection, today)]]
    /\ pc' = [pc EXCEPT ![p] = "done"]
    /\ UNCHANGED <<alerts, next_oid, collection, today>>
    /\ UNCHANGED smsVars

\* POST /sensor-data, lines 281-297, with the reading's insert: the
\* timestamp and the risk are set on the body, which collection.insert_one
\* stores before check_and_send_sensor_sms is called.
receive_sensor_data_stored(p, data, risk) ==
    /\ pc[p] = "idle"
    /\ req' = [req EXCEPT ![p] =
                  [kind |-> "sensor", data |-> data, risk |-> risk,
                   message |-> None, recipients |-> NoRecipients]]
    /\ IF DOMAIN data = {}
       THEN /\ pc' = [pc EXCEPT ![p] = "done"]
            /\ collection' = collection
       ELSE /\ Len(collection) < MaxReadings
            /\ pc' = [pc EXCEPT ![p] = "flood"]
            /\ collection' =
                   Append(collection,
                          [timestamp |-> isoformat_on(today, now),
                           risk |-> risk] @@ data)
    /\ UNCHANGED <<resp, alerts, next_oid, today>>
    /\ UNCHANGED smsVars

\* Midnights pass.
DaySteps == {3, 7}

next_day ==
    \E d \in DaySteps :
        /\ today + d <= MaxDay
        /\ today' = today + d
        /\ UNCHANGED <<now, sms_log, next_sid, ALERT_RECIPIENTS, pc, req,
                       call, ret, calls, resp, alerts, next_oid, collection>>

\* The readings POST /sensor-data receives here, each with the answer of
\* evaluate_risk.
WeeklyReadings ==
    {<<<<>>, "UNKNOWN">>} \cup {<<[distance |-> 150], r>> : r \in RiskLabels}

stepWeekly(p) ==
    \/ \E r \in WeeklyReadings : receive_sensor_data_stored(p, r[1], r[2])
    \/ flood_block(p)
    \/ rain_block(p)
    \/ air_block(p)
    \/ fire_block(p)
    \/ risk_block(p)
    \/ skip_number(p)
    \/ create_accepted(p)
    \/ create_raised(p)
    \/ after_loop(p)
    \/ weekly_risk(p)
    \/ respond(p)

NextWeekly == stepWeekly("h1") \/ next_day

SpecWeekly == Init /\ [][NextWeekly]_vars

\* ============================================================ claims
\* datetime.fromisoformat, the minutes of an isoformat string.
fromiso(s) == (s[1] * 10 + s[2]) * 60 + s[3] * 10 + s[4]

\* The places in a log of the records of one alert type.
RecordsOf(log, alert_type) ==
    {k \in 1..Len(log) : log[k].alert_type = alert_type}

\* This step is thread p's entry into send_sms_alert.
Invoked(p) == Len(calls'[p]) = Len(calls[p]) + 1

TimedTypes == {T \in HazardTypes : cooldown_mins(T) > 0}

\* A dispatch attempt for T by thread p, made at `now` when the log holds
\* exactly one record of T: its time t0, and how the attempt ended.
SoleRecordTime(T) ==
    fromiso(sms_log[CHOOSE k \in RecordsOf(sms_log, T) : TRUE].sent_at)

AttemptWithSoleRecord(p, T) ==
    /\ Invoked(p)
    /\ call'[p].alert_type = T
    /\ Cardinality(RecordsOf(sms_log, T)) = 1

SuppressedNow(p) == ret'[p] = FailRet("cooldown") /\ pc'[p] = call'[p].cont
PermittedNow(p) == ret'[p] = NoRet /\ pc'[p] = "loop"

\* C1, as stated: with cooldown C > 0 for T and one record of T, sent at
\* t0, an attempt for T at a time in [t0, t0+C) is suppressed and an
\* attempt at t0+C or later is permitted.
C1_AsStated ==
    [][\A p \in Threads, T \in TimedTypes :
          AttemptWithSoleRecord(p, T) =>
              LET t0 == SoleRecordTime(T)
                  C  == cooldown_mins(T)
              IN  /\ (t0 <= now /\ now < t0 + C) => SuppressedNow(p)
                  /\ now >= t0 + C => PermittedNow(p)]_vars

\* C1, amended: the window is closed at its end.  An attempt for T at a
\* time in [t0, t0+C] is suppressed, t0+C included, and an attempt at any
\* time later than t0+C is permitted.
C1_ClosedWindow ==
    [][\A p \in Threads, T \in TimedTypes :
          AttemptWithSoleRecord(p, T) =>
              LET t0 == SoleRecordTime(T)
                  C  == cooldown_mins(T)
              IN  /\ (t0 <= now /\ now <= t0 + C) => SuppressedNow(p)
                  /\ now > t0 + C => PermittedNow(p)]_vars

\* An attempt made exactly C minutes after the only record of its type has
\* just been suppressed.
C1_Witness ==
    \E p \in Threads, T \in TimedTypes :
        /\ call[p].alert_type = T
        /\ ret[p] = FailRet("cooldown")
        /\ Cardinality(RecordsOf(sms_log, T)) = 1
        /\ call[p].log0 = Len(sms_log)
        /\ SoleRecordTime(T) + cooldown_mins(T) = now

\* C2: for every type T with a nonzero cooldown, _is_on_cooldown(T) is true
\* exactly when the log holds a record of type T sent at or after
\* now - cooldown(T): the records of the other types have no part in it.
C2_CooldownIffRecentRecord ==
    \A T \in TimedTypes :
        is_on_cooldown(T) <=>
            \E k \in 1..Len(sms_log) :
                /\ sms_log[k].alert_type = T
                /\ fromiso(sms_log[k].sent_at) >= now - cooldown_mins(T)

\* FLOOD is on cooldown, RAIN is not although the log holds records, and
\* RAIN has a record of its own that is too old.
C2_Witness ==
    /\ is_on_cooldown("FLOOD")
    /\ ~is_on_cooldown("RAIN")
    /\ RecordsOf(sms_log, "RAIN") # {}

\* C3: a MANUAL dispatch is never suppressed: it never returns the reason
\* "cooldown", and until it returns it is in the recipient loop.
C3_ManualNeverSuppressed ==
    \A p \in Threads :
        call[p].alert_type = "MANUAL" =>
            /\ ret[p].reason # "cooldown"
            /\ ~ret[p].returned => pc[p] = "loop"
            /\ ~is_on_cooldown("MANUAL")

\* A MANUAL dispatch is in its loop, and it began when the log already held
\* a MANUAL record sent at this very instant.
C3_Witness ==
    \E p \in Threads :
        /\ call[p].alert_type = "MANUAL"
        /\ pc[p] = "loop"
        /\ \E k \in 1..call[p].log0 :
               /\ sms_log[k].alert_type = "MANUAL"
               /\ sms_log[k].sent_at = isoformat(now)

\* C4: a dispatch that returns with no recipient accepted by the gateway
\* has appended no record, and the cooldown of its type is what it is
\* without the dispatch.
C4_NoAcceptNoRecord ==
    \A p \in Threads :
        (ret[p].returned /\ call[p].results = <<>>) =>
            /\ ~ret[p].sent
            /\ Len(sms_log) = call[p].log0
            /\ is_on_cooldown(call[p].alert_type) =
                   is_on_cooldown_in(SubSeq(sms_log, 1, call[p].log0),
                                     call[p].alert_type, now)

\* A FLOOD dispatch was refused by the gateway, and FLOOD is not on
\* cooldown.
C4_Witness ==
    \E p \in Threads :
        /\ call[p].alert_type = "FLOOD"
        /\ ret[p] = FailRet("twilio error")
        /\ call[p].results = <<>>
        /\ call[p].attempted # <<>>
        /\ ~is_on_cooldown("FLOOD")

\* The recipients of a call that are not skipped, in order.
ValidRecipients(frame) ==
    SelectSeq(frame.recipients, LAMBDA n : ~is_skipped(n))

\* C5, as stated: once a dispatch has returned, it has left a record
\* exactly if the gateway accepted its message for at least one recipient.
C5_RecordIffAccepted ==
    \A p \in Threads :
        ret[p].returned =>
            (Len(sms_log) > call[p].log0 <=> call[p].results # <<>>)

\* C6, as stated: a dispatch that was not suppressed has, once it has
\* returned, handed every valid recipient to the gateway exactly once,
\* whatever the gateway did with the earlier ones.
C6_EveryValidRecipientAttempted ==
    \A p \in Threads :
        (ret[p].returned /\ ret[p].reason # "cooldown") =>
            call[p].attempted = ValidRecipients(call[p])

\* C7, as stated: no two records of one type with a nonzero cooldown lie
\* within one cooldown window of each other, however two dispatches
\* interleave.
C7_OneSendPerWindow ==
    \A T \in TimedTypes :
        \A j, k \in RecordsOf(sms_log, T) :
            j < k =>
                fromiso(sms_log[k].sent_at) - fromiso(sms_log[j].sent_at)
                    >= cooldown_mins(T)

\* C8: a suppressed dispatch has returned {sent: False, reason: "cooldown"},
\* has handed nothing to the gateway and has left the log as it found it.
C8_SuppressedChangesNothing ==
    \A p \in Threads :
        ret[p].reason = "cooldown" =>
            /\ ret[p] = FailRet("cooldown")
            /\ pc[p] # "loop"
            /\ call[p].attempted = <<>>
            /\ call[p].results = <<>>
            /\ Len(sms_log) = call[p].log0

\* A FLOOD dispatch has been suppressed by the one FLOOD record of the log.
C8_Witness ==
    \E p \in Threads :
        /\ call[p].alert_type = "FLOOD"
        /\ ret[p] = FailRet("cooldown")
        /\ Cardinality(RecordsOf(sms_log, "FLOOD")) = 1
        /\ is_on_cooldown("FLOOD")

\* The send_sms_alert calls of thread p's request for one alert type.
CallsOf(p, alert_type) ==
    SelectSeq(calls[p], LAMBDA c : c.alert_type = alert_type)

\* check_and_send_sensor_sms has run to its end for thread p's reading.
Evaluated(p) ==
    pc[p] = "done" /\ req[p].kind = "sensor" /\ DOMAIN req[p].data # {}

\* C9: a reading gives at most one send_sms_alert call for each of FLOOD,
\* RAIN, AIR and FIRE; a signal at or beyond its critical cutoff gives the
\* CRITICAL call and no WARN call, a signal between its cutoffs gives the
\* WARN call, and a signal short of both gives none.
C9_OneCandidatePerSignal ==
    \A p \in Threads :
        Evaluated(p) =>
            LET d == req[p].data
                distance    == IF "distance" \in DOMAIN d THEN d.distance ELSE 999
                rain        == IF "rain_level" \in DOMAIN d THEN d.rain_level ELSE 0
                air         == IF "air_quality" \in DOMAIN d THEN d.air_quality ELSE 0
                temperature == IF "temperature" \in DOMAIN d THEN d.temperature ELSE 0
                Expected(T, critical, warn) ==
                    /\ Len(CallsOf(p, T)) <= 1
                    /\ critical =>
                           CallsOf(p, T) =
                               <<[alert_type |-> T, message |-> "CRITICAL"]>>
                    /\ (~critical /\ warn) =>
                           CallsOf(p, T) =
                               <<[alert_type |-> T, message |-> "WARN"]>>
                    /\ (~critical /\ ~warn) => CallsOf(p, T) = <<>>
            IN  /\ Expected("FLOOD", distance <= 50, distance <= 100)
                /\ Expected("RAIN", rain >= 90, rain >= 70)
                /\ Expected("AIR", air >= 250, air >= 150)
                /\ Expected("FIRE", temperature >= 45, temperature >= 40)

\* The reading distance=40 has given exactly one call, FLOOD/CRITICAL.
C9_Witness ==
    \E p \in Threads :
        /\ Evaluated(p)
        /\ req[p].data = [distance |-> 40]
        /\ req[p].risk = "LOW"
        /\ calls[p] = <<[alert_type |-> "FLOOD", message |-> "CRITICAL"]>>

\* C10: a reading gives exactly one RISK_HIGH call if its risk label is
\* "HIGH" and none otherwise, whatever its signals are and however the
\* calls before it ended.
C10_RiskHighIffLabelHigh ==
    \A p \in Threads :
        Evaluated(p) =>
            Len(CallsOf(p, "RISK_HIGH")) =
                IF req[p].risk = "HIGH" THEN 1 ELSE 0

\* A reading with risk HIGH and distance 40: its FLOOD call met a gateway
\* failure (the recipient is valid and FLOOD has no record), and the
\* RISK_HIGH call was made all the same.
C10_Witness ==
    \E p \in Threads :
        /\ Evaluated(p)
        /\ req[p].risk = "HIGH"
        /\ req[p].data = [distance |-> 40]
        /\ ALERT_RECIPIENTS = <<"+911">>
        /\ RecordsOf(sms_log, "FLOOD") = {}
        /\ calls[p] = <<[alert_type |-> "FLOOD", message |-> "CRITICAL"],
                        [alert_type |-> "RISK_HIGH", message |-> "HIGH RISK"]>>

Logged == Len(sms_log') = Len(sms_log) + 1

\* C19: with one dispatch at a time, a record of a type with cooldown
\* C > 0 is written at least C minutes after every earlier record of that
\* type; a dispatch that ends suppressed or failed leaves the log as it
\* was, and a dispatch begun more than C minutes after the last record of
\* its type is not suppressed, whatever was attempted in between.
C19_SequentialSpacing ==
    [][/\ \A T \in TimedTypes :
            (Logged /\ sms_log'[Len(sms_log')].alert_type = T) =>
                \A k \in RecordsOf(sms_log, T) :
                    fromiso(sms_log'[Len(sms_log')].sent_at)
                        - fromiso(sms_log[k].sent_at) >= cooldown_mins(T)
       /\ \A p \in Threads :
            (ret'[p] # ret[p] /\ ret'[p].returned /\ ~ret'[p].sent) =>
                sms_log' = sms_log
       /\ \A p \in Threads, T \in TimedTypes :
            (/\ Invoked(p)
             /\ call'[p].alert_type = T
             /\ \A k \in RecordsOf(sms_log, T) :
                    now - fromiso(sms_log[k].sent_at) > cooldown_mins(T)) =>
                PermittedNow(p)
      ]_vars

\* Two records of one timed type are in the log, and a later dispatch of
\* that type has ended suppressed.
C19_Witness ==
    \E p \in Threads, T \in TimedTypes :
        /\ Cardinality(RecordsOf(sms_log, T)) = 2
        /\ call[p].alert_type = T
        /\ call[p].log0 = Len(sms_log)
        /\ ret[p] = FailRet("cooldown")

\* The signals with a WARN and a CRITICAL tier.
TieredTypes == {"FLOOD", "RAIN", "AIR", "FIRE"} \cap TimedTypes

\* The WARN records of type T among the first n records of the log.
WarnRecords(T, n) ==
    {k \in RecordsOf(sms_log, T) : k <= n /\ sms_log[k].message = "WARN"}

\* C20: a CRITICAL dispatch of a signal begun inside the window of a WARN
\* record of the same signal is suppressed with reason "cooldown", and the
\* gateway accepts a CRITICAL message of a signal only after the window of
\* every WARN record of that signal the dispatch found has passed.
C20_KeyedByTypeNotSeverity ==
    [][\A p \in Threads, T \in TieredTypes :
          /\ (/\ Invoked(p)
              /\ call'[p].alert_type = T
              /\ call'[p].message = "CRITICAL"
              /\ \E k \in WarnRecords(T, Len(sms_log)) :
                     /\ fromiso(sms_log[k].sent_at) <= now
                     /\ now <= fromiso(sms_log[k].sent_at) + cooldown_mins(T))
                 => (SuppressedNow(p) /\ UNCHANGED <<sms_log, next_sid>>)
          /\ (/\ call[p].alert_type = T
              /\ call[p].message = "CRITICAL"
              /\ call'[p].attempted # call[p].attempted)
                 => \A k \in WarnRecords(T, call[p].log0) :
                        now > fromiso(sms_log[k].sent_at) + cooldown_mins(T)
      ]_vars

\* After a WARN record of a signal, a CRITICAL dispatch of that signal has
\* ended suppressed.
C20_Witness ==
    \E p \in Threads, T \in TieredTypes :
        /\ WarnRecords(T, Len(sms_log)) # {}
        /\ call[p].alert_type = T
        /\ call[p].message = "CRITICAL"
        /\ ret[p] = FailRet("cooldown")

\* The severity ranks of a listing: Critical, High, Moderate, Low, then
\* every other severity.
SeverityRank(s) ==
    IF s = "Critical" THEN 1
    ELSE IF s = "High" THEN 2
    ELSE IF s = "Moderate" THEN 3
    ELSE IF s = "Low" THEN 4
    ELSE 5

\* The place in creation order of a listed document.
CreatedNth(d) == CHOOSE n \in 1..next_oid : str_oid(n) = d._id

\* Thread p has answered a GET /alerts.
Listed(p) == req[p].kind = "list" /\ pc[p] = "done"

\* C12: the list GET /alerts returns holds the stored alerts with every
\* Active one before every other one, within a status group in
\* non-decreasing severity rank, and among equal status and rank the one
\* created later first.
C12_ListingOrder ==
    \A p \in Threads :
        Listed(p) =>
            LET docs == resp[p].docs
            IN  /\ resp[p].code = 200
                /\ Len(docs) = Len(alerts)
                /\ \A k \in 1..Len(alerts) :
                       \E i \in 1..Len(docs) :
                           docs[i] = [alerts[k] EXCEPT !._id = str_oid(@)]
                /\ \A i, j \in 1..Len(docs) :
                       i < j =>
                           /\ docs[j].status = "Active" =>
                                  docs[i].status = "Active"
                           /\ docs[i].status = docs[j].status =>
                                  SeverityRank(docs[i].severity)
                                      <= SeverityRank(docs[j].severity)
                           /\ (/\ docs[i].status = docs[j].status
                               /\ SeverityRank(docs[i].severity)
                                      = SeverityRank(docs[j].severity)) =>
                                  CreatedNth(docs[i]) > CreatedNth(docs[j])

\* A listing with two alerts of equal status and rank and a Resolved alert
\* of a higher severity than an Active one.
C12_Witness ==
    \E p \in Threads :
        /\ Listed(p)
        /\ \E i, j \in 1..Len(resp[p].docs) :
               /\ i < j
               /\ resp[p].docs[i].status = resp[p].docs[j].status
               /\ resp[p].docs[i].severity = resp[p].docs[j].severity
        /\ \E i, j \in 1..Len(resp[p].docs) :
               /\ resp[p].docs[i].status = "Active"
               /\ resp[p].docs[j].status = "Resolved"
               /\ SeverityRank(resp[p].docs[j].severity)
                      < SeverityRank(resp[p].docs[i].severity)

\* C13: in every step, a record that enters the store is Active, and a
\* record that stays in the store keeps its status or goes from Active to
\* Resolved; a Resolved record is never Active again.
C13_ActiveThenResolved ==
    [][\A k \in 1..Len(alerts') :
          LET d == alerts'[k]
              old == {j \in 1..Len(alerts) : alerts[j]._id = d._id}
          IN  IF old = {} THEN d.status = "Active"
              ELSE \A j \in old :
                       \/ d.status = alerts[j].status
                       \/ alerts[j].status = "Active" /\ d.status = "Resolved"
      ]_vars

\* A resolve has left its alert Resolved among other alerts.
C13_Witness ==
    \E p \in Threads, k \in 1..Len(alerts) :
        /\ req[p].kind = "resolve"
        /\ req[p].data.alert_id = alerts[k].id
        /\ resp[p].code = 200
        /\ alerts[k].status = "Resolved"
        /\ alerts[k].resolved_at = isoformat(now)
        /\ Len(alerts) >= 2

\* C14: a resolve or a delete that names an id no stored alert has answers
\* 404 "Alert not found" and leaves the store as it was.
C14_UnknownIdNotFound ==
    [][\A p \in Threads :
          (/\ pc[p] = "idle"
           /\ req'[p].kind \in {"resolve", "delete"}
           /\ \A k \in 1..Len(alerts) :
                  alerts[k].id # req'[p].data.alert_id) =>
              /\ resp'[p].code = 404
              /\ resp'[p].error = "Alert not found"
              /\ alerts' = alerts
      ]_vars

\* A resolve of an unknown id was answered 404 while alerts are stored.
C14_Witness ==
    \E p \in Threads :
        /\ req[p].kind = "resolve"
        /\ resp[p].code = 404
        /\ Len(alerts) >= 1
        /\ \A k \in 1..Len(alerts) : alerts[k].id # req[p].data.alert_id

\* A creation request with all required fields and the SMS channel.
SmsCreation(p) ==
    /\ req[p].kind = "create"
    /\ \A k \in 1..Len(RequiredFields) :
           /\ RequiredFields[k] \in DOMAIN req[p].data
           /\ req[p].data[RequiredFields[k]] # ""
    /\ "channels" \in DOMAIN req[p].data
    /\ \E k \in 1..Len(req[p].data.channels) :
           req[p].data.channels[k] = "SMS"

\* The alert of thread p's creation request is stored, Active.
StoredActive(p) ==
    \E k \in 1..Len(alerts) :
        /\ str_oid(alerts[k]._id) = resp[p].docs[1]._id
        /\ alerts[k].status = "Active"
        /\ alerts[k].severity = req[p].data.severity
        /\ alerts[k].message = req[p].data.message

\* C15: a creation with all required fields and the SMS channel has its
\* alert stored Active from the start of the dispatch on, and is answered
\* 201 with the Active alert and the dispatch result, whatever that is.
C15_CreationAuthoritative ==
    \A p \in Threads :
        (SmsCreation(p) /\ pc[p] # "idle") =>
            /\ StoredActive(p)
            /\ pc[p] = "done" =>
                   /\ resp[p].code = 201
                   /\ resp[p].error = None
                   /\ resp[p].docs[1].status = "Active"
                   /\ resp[p].has_sms
                   /\ ret[p].returned
                   /\ resp[p].sms_result = ret[p]

\* A creation whose dispatch failed at the gateway was answered 201.
C15_Witness ==
    \E p \in Threads :
        /\ SmsCreation(p)
        /\ pc[p] = "done"
        /\ resp[p].code = 201
        /\ resp[p].sms_result = FailRet("twilio error")

\* C18, as stated: the stored alerts have pairwise distinct ids.
C18_DistinctIds ==
    \A j, k \in 1..Len(alerts) : j # k => alerts[j].id # alerts[k].id

\* Thread p has answered a GET /weekly-risk.
Summarised(p) == req[p].kind = "weekly" /\ pc[p] = "done"

\* The day of the i-th entry of the summary.
BucketDay(i) == today - 6 + (i - 1)

\* The stored readings taken on a day.
ReadingsOn(day) ==
    {k \in 1..Len(collection) :
        collection[k].timestamp[1] * 10 + collection[k].timestamp[2] = day}

\* The score of a label: LOW 1, MEDIUM 2, HIGH 3, UNKNOWN 0.
Score(label) ==
    IF label = "LOW" THEN 1
    ELSE IF label = "MEDIUM" THEN 2
    ELSE IF label = "HIGH" THEN 3
    ELSE 0

RECURSIVE SumScores(_)
SumScores(S) ==
    IF S = {} THEN 0
    ELSE LET k == CHOOSE k \in S : TRUE
         IN  Score(collection[k].risk) + SumScores(S \ {k})

\* This step is thread p's GET /weekly-risk; the readings and the day are
\* those of the state it is taken in.
Summarising(p) == pc[p] = "idle" /\ req'[p].kind = "weekly"

\* C16: the summary has seven entries, and each of them whose day has no
\* stored reading reports count 0 and label "NONE", whatever the other
\* days hold.
C16_EmptyDayIsNone ==
    [][\A p \in Threads :
          Summarising(p) =>
              /\ Len(resp'[p].docs) = 7
              /\ \A i \in 1..7 :
                     ReadingsOn(BucketDay(i)) = {} =>
                         /\ resp'[p].docs[i].count = 0
                         /\ resp'[p].docs[i].risk_label = "NONE"
      ]_vars

\* A summary with readings on two of its days and none on another.
C16_Witness ==
    \E p \in Threads :
        /\ Summarised(p)
        /\ \E i, j, k \in 1..7 :
               /\ i # j
               /\ resp[p].docs[i].count > 0
               /\ resp[p].docs[j].count > 0
               /\ ReadingsOn(BucketDay(k)) = {}
               /\ resp[p].docs[k].risk_label = "NONE"

\* C17, as stated: the label of a day with at least one reading is LOW,
\* MEDIUM or HIGH.
C17_AsStated ==
    [][\A p \in Threads :
          Summarising(p) =>
              \A i \in 1..7 :
                  resp'[p].docs[i].count > 0 =>
                      resp'[p].docs[i].risk_label \in {"LOW", "MEDIUM", "HIGH"}
      ]_vars

\* C17, amended: an entry counts the readings of its day, and the label of
\* a day with at least one reading is LOW, MEDIUM, HIGH or UNKNOWN, never
\* NONE; it is UNKNOWN exactly when the average score is at most one half,
\* and LOW, MEDIUM or HIGH exactly when twice the score sum lies in
\* (count, 3 count), [3 count, 5 count] or (5 count, 6 count].
C17_LabelOfRoundedAverage ==
    [][\A p \in Threads :
          Summarising(p) =>
              \A i \in 1..7 :
                  LET count == Cardinality(ReadingsOn(BucketDay(i)))
                      total == SumScores(ReadingsOn(BucketDay(i)))
                      label == resp'[p].docs[i].risk_label
                  IN  /\ resp'[p].docs[i].count = count
                      /\ count > 0 =>
                             /\ label \in {"LOW", "MEDIUM", "HIGH", "UNKNOWN"}
                             /\ label = "UNKNOWN" <=> 2 * total <= count
                             /\ label = "LOW" <=>
                                    (count < 2 * total
                                       /\ 2 * total < 3 * count)
                             /\ label = "MEDIUM" <=>
                                    (3 * count <= 2 * total
                                       /\ 2 * total <= 5 * count)
                             /\ label = "HIGH" <=> 5 * count < 2 * total
      ]_vars

\* A day with one LOW and one UNKNOWN reading, average one half, is
\* labelled UNKNOWN.
C17_Witness ==
    \E p \in Threads :
        /\ Summarised(p)
        /\ \E i \in 1..7 :
               /\ resp[p].docs[i].count = 2
               /\ SumScores(ReadingsOn(BucketDay(i))) = 1
               /\ resp[p].docs[i].risk_label = "UNKNOWN"

====
